---- MODULE Spec2Model ----
(***************************************************************************)
(* A model of SangerSearch (src/sangersearch_gui.py): the file locator,    *)
(* the sequence matcher, the trace-window computation of                   *)
(* plot_trace_section and the handlers of SequenceFinderWindow.            *)
(*                                                                         *)
(* Strings are sequences of one-character strings.  Python's None is the   *)
(* string "None".  A trace file on disk is a record [ok, seq, chan]: ok    *)
(* says whether SeqIO.read decodes it, seq is record.seq and chan is the   *)
(* length of each of the four DATA9..DATA12 channels (the decoder yields   *)
(* channels of one length; only len(traces[0]) and slices are used).       *)
(***************************************************************************)
EXTENDS Integers, Sequences, FiniteSets, TLC

VARIABLES
    current_directory,  \* self.current_directory
    sequence_input,     \* self.sequence_input.text()
    found_files,        \* self.found_files
    files_list,         \* result frames held by self.files_list_layout
    trace_layout,       \* canvases held by self.trace_layout
    status_label,       \* self.status_label text
    disk,               \* the file system: which directories exist, file contents
    ev,                 \* the handler that ran last and what it read
    search_query,       \* the query text the last completed search used
    call                \* a direct call of a pure function and its result

vars == << current_directory, sequence_input, found_files, files_list,
           trace_layout, status_label, disk, ev, search_query, call >>

gui_vars == << current_directory, sequence_input, found_files, files_list,
               trace_layout, status_label, disk, ev, search_query >>

(***************************************************************************)
(* Bounds                                                                  *)
(***************************************************************************)
NumFiles == 3        \* files below the root directory
MaxSeqLen == 4       \* longest called-base sequence given to the matcher
MaxQueryLen == 2     \* longest query given to the matcher
MaxPlotLen == 46     \* longest called-base sequence given to the plot
MaxRatio == 3        \* largest whole samples-per-base ratio
MaxExtra == 2        \* channel samples beyond a whole ratio
MaxPlotQuery == 2    \* longest query length given to the plot

padding == 20

None == "None"

(***************************************************************************)
(* Strings                                                                 *)
(***************************************************************************)
\* str.upper on one character
UpperChar(c) ==
    CASE c = "a" -> "A"
      [] c = "c" -> "C"
      [] c = "g" -> "G"
      [] c = "t" -> "T"
      [] c = "n" -> "N"
      [] c = "b" -> "B"
      [] c = "s" -> "S"
      [] c = "x" -> "X"
      [] OTHER -> c

\* str.upper / str.lower
Upper(s) == [i \in 1..Len(s) |-> UpperChar(s[i])]

LowerChar(c) ==
    CASE c = "A" -> "a"
      [] c = "B" -> "b"
      [] c = "C" -> "c"
      [] c = "G" -> "g"
      [] c = "T" -> "t"
      [] c = "N" -> "n"
      [] c = "S" -> "s"
      [] c = "X" -> "x"
      [] OTHER -> c

Lower(s) == [i \in 1..Len(s) |-> LowerChar(s[i])]

\* str.endswith
EndsWith(s, suffix) ==
    /\ Len(suffix) <= Len(s)
    /\ SubSeq(s, Len(s) - Len(suffix) + 1, Len(s)) = suffix

\* s[i : i + len(sub)] == sub, 0-based i
MatchAt(s, sub, i) ==
    /\ i + Len(sub) <= Len(s)
    /\ \A k \in 1..Len(sub) : s[i + k] = sub[k]

RECURSIVE FindFrom(_, _, _)
FindFrom(s, sub, i) ==
    IF i + Len(sub) > Len(s) THEN -1
    ELSE IF MatchAt(s, sub, i) THEN i
    ELSE FindFrom(s, sub, i + 1)

\* str.find: the lowest 0-based index of sub in s, or -1
Find(s, sub) == FindFrom(s, sub, 0)

\* Bio.Seq complement table restricted to the characters of the model
ComplementChar(c) ==
    CASE c = "A" -> "T"
      [] c = "T" -> "A"
      [] c = "C" -> "G"
      [] c = "G" -> "C"
      [] c = "a" -> "t"
      [] c = "t" -> "a"
      [] c = "c" -> "g"
      [] c = "g" -> "c"
      [] OTHER -> c

\* Seq(s).reverse_complement()
reverse_complement(s) == [i \in 1..Len(s) |-> ComplementChar(s[Len(s) + 1 - i])]

(***************************************************************************)
(* search_sequence                                                         *)
(***************************************************************************)
\* the exception leaves search_sequence
RaiseReadError == [raised |-> TRUE, found |-> FALSE, orientation |-> None, position |-> None]

\* the except clause: the error is printed and the file reported as no match
OnReadError == [raised |-> FALSE, found |-> FALSE, orientation |-> None, position |-> None]

NoMatch == [raised |-> FALSE, found |-> FALSE, orientation |-> None, position |-> None]

Hit(orientation, position) ==
    [raised |-> FALSE, found |-> TRUE, orientation |-> orientation, position |-> position]

\* the match with the smaller index is reported
PreferSmallerIndex(forward_pos, reverse_pos) ==
    IF forward_pos # -1 /\ (reverse_pos = -1 \/ forward_pos <= reverse_pos)
        THEN Hit("forward", forward_pos)
    ELSE IF reverse_pos # -1 THEN Hit("reverse complement", reverse_pos)
    ELSE NoMatch

\* forward is reported before reverse complement
Choose(forward_pos, reverse_pos) ==
    IF forward_pos # -1 THEN Hit("forward", forward_pos)
    ELSE IF reverse_pos # -1 THEN Hit("reverse complement", reverse_pos)
    ELSE NoMatch

\* (found, orientation, position) of one file; raised is whether an
\* exception leaves the function
search_sequence(content, text) ==
    IF ~content.ok THEN OnReadError
    ELSE LET search_seq == Upper(text)
             sequence == Upper(content.seq)
             rev_comp == reverse_complement(search_seq)
         IN  Choose(Find(sequence, search_seq), Find(sequence, rev_comp))

(***************************************************************************)
(* plot_trace_section                                                      *)
(***************************************************************************)
Max(a, b) == IF a >= b THEN a ELSE b

Min(a, b) == IF a <= b THEN a ELSE b

\* int(): truncation toward zero of a / b, b > 0
TruncDiv(a, b) == IF a >= 0 THEN a \div b ELSE -((-a) \div b)

RECURSIVE OddPart(_)
OddPart(n) == IF n % 2 = 0 THEN OddPart(n \div 2) ELSE n

\* len(traces[0]) / len(record.seq) is a double: it is the exact ratio when
\* the odd part of n divides m, and a rounded one otherwise
ExactRatio(m, n) == m % OddPart(n) = 0

\* The values int(t * (m / n)) can take, n > 0.  With a rounded ratio the
\* product of a whole-valued t * m / n may fall just short of the whole
\* number, and int() then yields the neighbour toward zero; every other
\* product is further from a whole number than the rounding error.
IntOfProduct(t, m, n) ==
    LET exact == TruncDiv(t * m, n)
    IN  IF ExactRatio(m, n) \/ (t * m) % n # 0 \/ t * m = 0
            THEN {exact}
            ELSE {exact, IF exact > 0 THEN exact - 1 ELSE exact + 1}

\* start_point = max(0, start_point)
ClampStart(start_point) == Max(0, start_point)

NoClampEnd(chan, end_point) == end_point

\* end_point = min(len(traces[0]), end_point)
ClampEnd(chan, end_point) == Min(chan, end_point)

\* np.linspace(lo, hi, num)[k] as the fraction <<numerator, denominator>>
LinspaceAt(lo, hi, num, k) ==
    IF num = 1 THEN << lo, 1 >>
    ELSE << lo * (num - 1) + k * (hi - lo), num - 1 >>

OnlyN(base) == base = "N"

\* base not in 'ACGT'
IsAmbiguous(base) == base \notin {"A", "C", "G", "T"}

\* for i in range(i, stop): if 0 <= i < len(record.seq): ax.text(i, ..., base)
RECURSIVE Annotate(_, _, _)
Annotate(seq, i, stop) ==
    IF i >= stop THEN << >>
    ELSE IF 0 <= i /\ i < Len(seq)
        THEN << [i |-> i, base |-> seq[i + 1], purple |-> IsAmbiguous(seq[i + 1])] >>
             \o Annotate(seq, i + 1, stop)
    ELSE Annotate(seq, i + 1, stop)

Failure(file, error) == [ok |-> FALSE, file |-> file, error |-> error]

Figure(file, content, match_position, sequence_length, orientation, search_seq, s, e) ==
    LET chan == content.chan
        start_point == ClampStart(s)
        end_point == ClampEnd(chan, e)
        num == end_point - start_point
    IN  IF num < 0 THEN Failure(file, "ValueError")       \* np.linspace
        ELSE IF Min(chan, end_point) <= start_point
            THEN Failure(file, "ValueError")              \* max() of an empty slice
        ELSE [ok |-> TRUE,
              file |-> file,
              start_point |-> start_point,
              end_point |-> end_point,
              seq_positions |-> [lo |-> match_position - padding,
                                 hi |-> match_position + sequence_length + padding,
                                 num |-> num],
              axvspan |-> << match_position, match_position + sequence_length >>,
              text |-> Annotate(content.seq, match_position - padding,
                                match_position + sequence_length + padding),
              orientation |-> orientation,
              search_seq |-> search_seq]

\* The figures plot_trace_section can return, or the exception it raises
plot_trace_section(file, content, match_position, sequence_length, orientation, search_seq) ==
    IF ~content.ok THEN {Failure(file, "DecodeError")}
    ELSE IF Len(content.seq) = 0 THEN {Failure(file, "ZeroDivisionError")}
    ELSE {Figure(file, content, match_position, sequence_length, orientation, search_seq, s, e) :
            s \in IntOfProduct(match_position - padding, content.chan, Len(content.seq)),
            e \in IntOfProduct(match_position + sequence_length + padding,
                               content.chan, Len(content.seq))}

(***************************************************************************)
(* The file system                                                         *)
(***************************************************************************)
Files == 1..NumFiles

Dirs == {"root", "root/sub"}

\* os.path.basename of file f: every third name is no trace file, the
\* others carry the extension in either case
Basename(f) ==
    IF f % 3 = 2 THEN << "s", ".", "t", "x", "t" >>
    ELSE IF f % 2 = 0 THEN << "s", ".", "a", "b", "1" >>
    ELSE << "S", ".", "A", "B", "1" >>

\* root holds the files 1..NumFiles-1 and the directory sub, which holds
\* the file NumFiles
Listing(d) ==
    IF d = "root" THEN [i \in 1..(NumFiles - 1) |-> i] ELSE << NumFiles >>

\* what SeqIO.read(file, "abi") finds on disk, by content number
TraceTable ==
    << [ok |-> TRUE, seq |-> << "G", "T", "A", "C", "G" >>, chan |-> 10],
       [ok |-> TRUE, seq |-> << "N", "C", "G", "T" >>, chan |-> 9] >>

Corrupt == [ok |-> FALSE, seq |-> << >>, chan |-> 0]

ContentIds == 0..Len(TraceTable)

Content(d, f) == IF d.content[f] = 0 THEN Corrupt ELSE TraceTable[d.content[f]]

\* os.walk(start_path): top-down, nothing at all for a path that is no
\* directory (the error of the listing is ignored)
Walk(d, start_path) ==
    IF start_path \notin Dirs \/ ~d.exists[start_path] THEN << >>
    ELSE IF start_path = "root"
        THEN << [root |-> "root", files |-> Listing("root")] >>
             \o (IF d.exists["root/sub"]
                    THEN << [root |-> "root/sub", files |-> Listing("root/sub")] >>
                    ELSE << >>)
    ELSE << [root |-> start_path, files |-> Listing(start_path)] >>

(***************************************************************************)
(* find_ab1_files                                                          *)
(***************************************************************************)
\* file.lower().endswith('.ab1')
IsAb1(f) == EndsWith(Lower(Basename(f)), << ".", "a", "b", "1" >>)

RECURSIVE Ab1In(_, _)
Ab1In(files, i) ==
    IF i > Len(files) THEN << >>
    ELSE (IF IsAb1(files[i]) THEN << files[i] >> ELSE << >>) \o Ab1In(files, i + 1)

RECURSIVE Ab1Under(_, _)
Ab1Under(walk, i) ==
    IF i > Len(walk) THEN << >>
    ELSE Ab1In(walk[i].files, 1) \o Ab1Under(walk, i + 1)

\* the outcome of find_ab1_files: it returns a list and raises nothing
find_ab1_files(d, start_path) ==
    [outcome |-> "list", files |-> Ab1Under(Walk(d, start_path), 1)]

(***************************************************************************)
(* SequenceFinderWindow                                                    *)
(***************************************************************************)
Queries == { << >>, << "a", "c" >>, << "A", "C", "G" >> }

\* ev after a step that is no search and shows no trace
Resting == [op |-> "none", walked |-> FALSE, decoded |-> {}]

Idle(op) == [op |-> op, walked |-> FALSE, decoded |-> {}]

\* select_directory: the dialog returns an existing directory, or "" when
\* it is cancelled
SelectDirectory(directory) ==
    /\ directory = "" \/ (directory \in Dirs /\ disk.exists[directory])
    /\ current_directory' = IF directory # "" THEN directory ELSE current_directory
    /\ ev' = Resting
    /\ UNCHANGED << sequence_input, found_files, files_list, trace_layout,
                    status_label, disk, search_query, call >>

\* the user edits the text of sequence_input
EditQuery(text) ==
    /\ sequence_input' = text
    /\ ev' = Resting
    /\ UNCHANGED << current_directory, found_files, files_list, trace_layout,
                    status_label, disk, search_query, call >>

OnlyDirectoryChecked(directory, text) ==
    IF directory = None THEN "Please select a directory first!" ELSE ""

\* the two early returns of perform_search: the message shown, "" for none
Validate(directory, text) ==
    IF directory = None THEN "Please select a directory first!"
    ELSE IF text = << >> THEN "Please enter a sequence to search for!"
    ELSE ""

KeepFoundFiles(old) == old

\* self.found_files = []
ResetFoundFiles(old) == << >>

\* for file in ab1_files: ... ; acc is what the loop has built so far
RECURSIVE SearchLoop(_, _, _, _, _)
SearchLoop(d, ab1_files, i, text, acc) ==
    IF i > Len(ab1_files) THEN acc
    ELSE LET file == ab1_files[i]
             r == search_sequence(Content(d, file), text)
             read == [acc EXCEPT !.decoded = @ \cup {file}]
         IN  IF r.raised THEN [read EXCEPT !.raised = TRUE]
             ELSE IF r.found
                 THEN SearchLoop(d, ab1_files, i + 1, text,
                        [read EXCEPT
                           !.found_files = Append(@, [file |-> file,
                                                      orientation |-> r.orientation,
                                                      position |-> r.position]),
                           !.items = Append(@, [file |-> file,
                                                orientation |-> r.orientation])])
             ELSE SearchLoop(d, ab1_files, i + 1, text, read)

\* perform_search, from the click to its return.  QApplication.processEvents()
\* runs in it with no event pending: the result frames are detached by then,
\* so no click on a result is delivered there.  The status label passes
\* through "Searching..." and ends on the text below.
PerformSearch ==
    LET message == Validate(current_directory, sequence_input)
    IN  IF message # ""
        THEN /\ status_label' = << message, 0 >>
             /\ ev' = Idle("search_rejected")
             /\ UNCHANGED << current_directory, sequence_input, found_files, files_list,
                             trace_layout, disk, search_query, call >>
        ELSE LET located == find_ab1_files(disk, current_directory)
                 done == SearchLoop(disk, located.files, 1, sequence_input,
                                    [raised |-> FALSE,
                                     found_files |-> ResetFoundFiles(found_files),
                                     items |-> << >>,
                                     decoded |-> {}])
             IN  /\ found_files' = done.found_files
                 /\ files_list' = done.items
                 /\ status_label' =
                        IF done.raised THEN << "Searching...", 0 >>
                        ELSE IF done.found_files # << >>
                            THEN << "Found sequence in files", Len(done.found_files) >>
                        ELSE << "Sequence not found in any files", 0 >>
                 /\ ev' = [op |-> IF done.raised THEN "search_aborted" ELSE "search",
                           walked |-> TRUE, decoded |-> done.decoded]
                 /\ search_query' = sequence_input
                 /\ UNCHANGED << current_directory, sequence_input, trace_layout,
                                 disk, call >>

\* next(f for f in self.found_files if f[0] == file_path): the entry in a
\* one-element list, or the empty list for StopIteration
RECURSIVE FileInfo(_, _, _)
FileInfo(ff, i, file_path) ==
    IF i > Len(ff) THEN << >>
    ELSE IF ff[i].file = file_path THEN << ff[i] >>
    ELSE FileInfo(ff, i + 1, file_path)

\* show_trace(file_path, orientation), as bound by the clicked result frame
ShowTrace(file_path, orientation) ==
    LET file_info == FileInfo(found_files, 1, file_path)
    IN  IF file_info = << >>
        THEN /\ trace_layout' = << >>
             /\ status_label' = << "Error displaying trace", 0 >>
             /\ ev' = Idle("show_trace_failed")
             /\ UNCHANGED << current_directory, sequence_input, found_files, files_list,
                             disk, search_query, call >>
        ELSE \E fig \in plot_trace_section(file_path, Content(disk, file_path),
                                           file_info[1].position, Len(sequence_input),
                                           orientation, sequence_input) :
                /\ trace_layout' = IF fig.ok THEN << fig >> ELSE << >>
                /\ status_label' = IF fig.ok THEN status_label
                                   ELSE << "Error displaying trace", 0 >>
                /\ ev' = [op |-> IF fig.ok THEN "show_trace" ELSE "show_trace_failed",
                          walked |-> FALSE, decoded |-> {file_path}]
                /\ UNCHANGED << current_directory, sequence_input, found_files,
                                files_list, disk, search_query, call >>

\* a click on the i-th result frame
ClickResult(i) ==
    /\ i \in 1..Len(files_list)
    /\ ShowTrace(files_list[i].file, files_list[i].orientation)

(***************************************************************************)
(* The environment: files are damaged and directories removed              *)
(***************************************************************************)
CorruptFile(f) ==
    /\ IsAb1(f)
    /\ disk.content[f] # 0
    /\ disk' = [disk EXCEPT !.content[f] = 0]
    /\ ev' = Resting
    /\ UNCHANGED << current_directory, sequence_input, found_files, files_list,
                    trace_layout, status_label, search_query, call >>

RemoveDirectory(dir) ==
    /\ disk.exists[dir]
    /\ disk' = [disk EXCEPT !.exists =
                    [x \in Dirs |-> IF x = dir \/ dir = "root" THEN FALSE ELSE @[x]]]
    /\ ev' = Resting
    /\ UNCHANGED << current_directory, sequence_input, found_files, files_list,
                    trace_layout, status_label, search_query, call >>

NoCall == [fn |-> "none"]

\* after __init__, over any contents of the trace files
Init ==
    /\ current_directory = None
    /\ sequence_input = << >>
    /\ found_files = << >>
    /\ files_list = << >>
    /\ trace_layout = << >>
    /\ status_label = << "", 0 >>
    /\ disk \in { [exists |-> [x \in Dirs |-> TRUE], content |-> c] :
                    c \in { k \in [Files -> ContentIds] :
                              \A f \in Files : ~IsAb1(f) => k[f] = 0 } }
    /\ ev = Resting
    /\ search_query = None
    /\ call = NoCall

Next ==
    \/ \E directory \in Dirs \cup {""} : SelectDirectory(directory)
    \/ \E text \in Queries : EditQuery(text)
    \/ PerformSearch
    \/ \E i \in 1..NumFiles : ClickResult(i)
    \/ \E f \in Files : CorruptFile(f)
    \/ \E dir \in Dirs : RemoveDirectory(dir)

Spec == Init /\ [][Next]_vars

(***************************************************************************)
(* Direct calls of search_sequence, over every short sequence and query    *)
(***************************************************************************)
Strings(alphabet, lo, hi) == UNION { [1..n -> alphabet] : n \in lo..hi }

MatchContents ==
    {Corrupt} \cup { [ok |-> TRUE, seq |-> s, chan |-> Len(s)] :
                       s \in Strings({"A", "C", "G", "t"}, 0, MaxSeqLen) }

MatchQueries == Strings({"A", "C", "g", "T"}, 1, MaxQueryLen)

\* the window before any handler ran, on a disk of unreadable files
GuiAtRest ==
    /\ current_directory = None
    /\ sequence_input = << >>
    /\ found_files = << >>
    /\ files_list = << >>
    /\ trace_layout = << >>
    /\ status_label = << "", 0 >>
    /\ disk = [exists |-> [x \in Dirs |-> TRUE], content |-> [f \in Files |-> 0]]
    /\ ev = Resting
    /\ search_query = None

InitMatch ==
    /\ GuiAtRest
    /\ call \in { [fn |-> "search_sequence", done |-> FALSE, content |-> c, text |-> q] :
                    c \in MatchContents, q \in MatchQueries }

CallSearchSequence ==
    /\ call.fn = "search_sequence"
    /\ ~call.done
    /\ call' = [fn |-> "search_sequence", done |-> TRUE,
                content |-> call.content, text |-> call.text,
                result |-> search_sequence(call.content, call.text)]
    /\ UNCHANGED gui_vars

NextMatch == CallSearchSequence

SpecMatch == InitMatch /\ [][NextMatch]_vars

(***************************************************************************)
(* Direct calls of plot_trace_section                                      *)
(***************************************************************************)
PlotAlphabet == << "A", "C", "G", "T", "N", "a" >>

\* a called-base sequence of n bases that runs through PlotAlphabet
PlotSeq(n) == [i \in 1..n |-> PlotAlphabet[(i % Len(PlotAlphabet)) + 1]]

\* decoded traces of n >= 1 bases and at least n samples per channel, and
\* three malformed ones
PlotContents ==
    { [ok |-> TRUE, seq |-> PlotSeq(n), chan |-> n * r + x] :
        n \in 1..MaxPlotLen, r \in 1..MaxRatio, x \in 0..MaxExtra }

Malformed ==
    { Corrupt,
      [ok |-> TRUE, seq |-> << >>, chan |-> 0],
      [ok |-> TRUE, seq |-> PlotSeq(3), chan |-> 0] }

InitPlot ==
    /\ GuiAtRest
    /\ call \in { [fn |-> "plot_trace_section", done |-> FALSE, content |-> c,
                   match_position |-> p, sequence_length |-> n] :
                    c \in PlotContents \cup Malformed,
                    p \in 0..(MaxPlotLen - 1), n \in 1..MaxPlotQuery }
    /\ call.match_position < Max(1, Len(call.content.seq))

CallPlotTraceSection ==
    /\ call.fn = "plot_trace_section"
    /\ ~call.done
    /\ \E fig \in plot_trace_section(0, call.content, call.match_position,
                                     call.sequence_length, "forward", << >>) :
          call' = [fn |-> "plot_trace_section", done |-> TRUE, content |-> call.content,
                   match_position |-> call.match_position,
                   sequence_length |-> call.sequence_length,
                   result |-> fig]
    /\ UNCHANGED gui_vars

NextPlot == CallPlotTraceSection

SpecPlot == InitPlot /\ [][NextPlot]_vars

(***************************************************************************)
(* Properties                                                              *)
(***************************************************************************)
\* sub occurs in s at the 0-based index i
Occurs(sub, s, i) ==
    /\ 0 <= i
    /\ i + Len(sub) <= Len(s)
    /\ SubSeq(s, i + 1, i + Len(sub)) = sub

\* i is the leftmost index of sub in s
Leftmost(sub, s, i) == Occurs(sub, s, i) /\ \A j \in 0..(i - 1) : ~Occurs(sub, s, j)

Contains(sub, s) == \E i \in 0..Len(s) : Occurs(sub, s, i)

\* upper case of the letters a sequence or a query over A, C, G, T is written in
Canon(s) ==
    [i \in 1..Len(s) |->
        CASE s[i] \in {"A", "a"} -> "A"
          [] s[i] \in {"C", "c"} -> "C"
          [] s[i] \in {"G", "g"} -> "G"
          [] s[i] \in {"T", "t"} -> "T"
          [] OTHER -> s[i]]

\* r is the reverse complement of q, q over {A, C, G, T}
WatsonCrick(q, r) ==
    /\ Len(r) = Len(q)
    /\ \A i \in 1..Len(q) :
          << q[i], r[Len(q) + 1 - i] >> \in
              { << "A", "T" >>, << "T", "A" >>, << "C", "G" >>, << "G", "C" >> }

RevComp(q) == CHOOSE r \in [1..Len(q) -> {"A", "C", "G", "T"}] : WatsonCrick(q, r)

\* C1: for a decoded sequence S and a non-empty query Q over {A,C,G,T}, both
\* upper-cased, search_sequence returns (found, forward, i) with i the leftmost
\* index of Q in S whenever Q occurs in S; otherwise (found, reverse
\* complement, j) with j the leftmost index of the reverse complement of Q
\* whenever that occurs; otherwise not found, with no orientation or position.
C1_SearchSequence ==
    (call.fn = "search_sequence" /\ call.done /\ call.content.ok) =>
        LET S == Canon(call.content.seq)
            Q == Canon(call.text)
            R == RevComp(Q)
            r == call.result
        IN  /\ ~r.raised
            /\ Contains(Q, S) =>
                  /\ r.found /\ r.orientation = "forward"
                  /\ Leftmost(Q, S, r.position)
            /\ (~Contains(Q, S) /\ Contains(R, S)) =>
                  /\ r.found /\ r.orientation = "reverse complement"
                  /\ Leftmost(R, S, r.position)
            /\ (~Contains(Q, S) /\ ~Contains(R, S)) =>
                  /\ ~r.found /\ r.orientation = None /\ r.position = None

\* a forward match reported although the reverse complement occurs further left
C1_Witness ==
    /\ call.fn = "search_sequence" /\ call.done /\ call.content.ok
    /\ call.result.found /\ call.result.orientation = "forward"
    /\ \E j \in 0..(call.result.position - 1) :
          Occurs(RevComp(Canon(call.text)), Canon(call.content.seq), j)
    /\ call.text # Canon(call.text)
    /\ call.content.seq # Canon(call.content.seq)

\* C3: for a trace of N >= 1 bases and M >= N samples, a match position in
\* [0, N) and a query length >= 1, plot_trace_section builds its figure with
\* 0 <= start_point <= end_point <= M.
C3_WindowInChannel ==
    (/\ call.fn = "plot_trace_section" /\ call.done /\ call.content.ok
     /\ Len(call.content.seq) >= 1 /\ call.content.chan >= Len(call.content.seq)) =>
        /\ call.result.ok
        /\ 0 <= call.result.start_point
        /\ call.result.start_point <= call.result.end_point
        /\ call.result.end_point <= call.content.chan

\* a window clamped at both ends: the padding reaches before the first base
\* and past the last one
C3_Witness ==
    /\ call.fn = "plot_trace_section" /\ call.done /\ call.result.ok
    /\ call.content.chan > Len(call.content.seq)
    /\ call.match_position > 0
    /\ call.match_position - padding < 0
    /\ call.match_position + call.sequence_length + padding > Len(call.content.seq)
    /\ call.result.start_point = 0
    /\ call.result.end_point = call.content.chan

\* C4: a built figure carries one annotation for exactly the positions i of
\* [match_position - 20, match_position + query_length + 20) with
\* 0 <= i < sequence_length, each with the base sequence[i], drawn purple if
\* and only if that base is none of A, C, G, T.
C4_Annotations ==
    (call.fn = "plot_trace_section" /\ call.done /\ call.result.ok) =>
        LET text == call.result.text
            seq == call.content.seq
            wanted == { i \in (call.match_position - 20) ..
                              (call.match_position + call.sequence_length + 20 - 1) :
                          0 <= i /\ i < Len(seq) }
        IN  /\ { text[k].i : k \in 1..Len(text) } = wanted
            /\ Len(text) = Cardinality(wanted)
            /\ \A k \in 1..Len(text) :
                  /\ text[k].base = seq[text[k].i + 1]
                  /\ text[k].purple <=> text[k].base \notin {"A", "C", "G", "T"}

\* a figure whose window leaves out bases at both ends of the sequence and
\* annotates both a purple base and a plain one
C4_Witness ==
    /\ call.fn = "plot_trace_section" /\ call.done /\ call.result.ok
    /\ call.match_position - 20 > 0
    /\ call.match_position + call.sequence_length + 20 < Len(call.content.seq)
    /\ \E k \in 1..Len(call.result.text) :
          call.result.text[k].purple /\ call.result.text[k].base = "a"
    /\ \E k \in 1..Len(call.result.text) : ~call.result.text[k].purple

\* C9: the base-position axis has end_point - start_point points and its
\* k-th value is the base coordinate of the k-th windowed sample,
\* (start_point + k) / samples_per_base, samples_per_base = M / N.
C9_AxisAligned ==
    (/\ call.fn = "plot_trace_section" /\ call.done /\ call.result.ok
     /\ call.content.chan >= Len(call.content.seq)) =>
        LET fig == call.result
            ax == fig.seq_positions
        IN  /\ ax.num = fig.end_point - fig.start_point
            /\ \A k \in 0..(ax.num - 1) :
                  LET x == LinspaceAt(ax.lo, ax.hi, ax.num, k)
                  IN  x[1] * call.content.chan
                        = (fig.start_point + k) * Len(call.content.seq) * x[2]

\* the files a search of the current directory is given by the locator
Located ==
    LET ab1_files == find_ab1_files(disk, current_directory).files
    IN  { ab1_files[i] : i \in 1..Len(ab1_files) }

\* file f decodes and holds the query text, or its reverse complement
HoldsQuery(f, text) ==
    /\ Content(disk, f).ok
    /\ \/ Contains(Canon(text), Canon(Content(disk, f).seq))
       \/ Contains(RevComp(Canon(text)), Canon(Content(disk, f).seq))

FoundSet == { found_files[i].file : i \in 1..Len(found_files) }

\* C2: a search over located files of which any fail to decode never aborts:
\* every located file is decoded, and every file that decodes and holds the
\* query or its reverse complement is in the results.
C2_FailuresIsolated ==
    ev.op \in {"search", "search_aborted"} =>
        /\ ev.op = "search"
        /\ ev.decoded = Located
        /\ \A f \in Located :
              HoldsQuery(f, sequence_input) =>
                  /\ f \in FoundSet
                  /\ \E i \in 1..Len(files_list) : files_list[i].file = f

\* the first located file fails to decode and a later one is reported
C2_Witness ==
    /\ ev.op = "search"
    /\ \E f \in Located, g \in FoundSet : f < g /\ ~Content(disk, f).ok

\* C5: the file locator fails with NotFoundError when the root path does not
\* exist or is not a directory; it does not return a list.
C5_LocatorFails ==
    (ev.op = "search" /\ ~disk.exists[current_directory]) =>
        find_ab1_files(disk, current_directory).outcome = "NotFoundError"

\* C6: a search requested with an empty query, or with no directory
\* selected, is rejected with a message: no file is located or decoded, and
\* found_files and the result frames stay as they were.
C6_Rejected ==
    [][(/\ ev'.op \in {"search", "search_aborted", "search_rejected"}
        /\ (sequence_input = << >> \/ current_directory = None)) =>
            /\ ev'.op = "search_rejected"
            /\ status_label'[1] \in {"Please select a directory first!",
                                     "Please enter a sequence to search for!"}
            /\ ~ev'.walked
            /\ ev'.decoded = {}
            /\ found_files' = found_files
            /\ files_list' = files_list]_vars

\* an empty query rejected while earlier results are on display
C6_Witness ==
    /\ ev.op = "search_rejected"
    /\ sequence_input = << >>
    /\ current_directory # None
    /\ found_files # << >>
    /\ files_list # << >>

\* C7: when building the trace view of a clicked result fails, the error is
\* shown and the trace viewer still holds the view it held before.
C7_ViewKept ==
    [][ev'.op = "show_trace_failed" =>
            /\ status_label'[1] = "Error displaying trace"
            /\ trace_layout' = trace_layout]_vars

\* C8: after a completed search found_files holds at most one entry per
\* located file, an entry for exactly the files in which the query was found,
\* in the order the locator returned them, and nothing of an earlier search.
C8_FoundFiles ==
    ev.op = "search" =>
        LET ab1_files == find_ab1_files(disk, current_directory).files
            At(f) == CHOOSE i \in 1..Len(ab1_files) : ab1_files[i] = f
        IN  /\ \A i, j \in 1..Len(found_files) :
                  i < j => found_files[i].file # found_files[j].file
            /\ FoundSet = { f \in Located : HoldsQuery(f, sequence_input) }
            /\ \A i, j \in 1..Len(found_files) :
                  i < j => At(found_files[i].file) < At(found_files[j].file)

\* a search that reports two files
C8_Witness == ev.op = "search" /\ Len(found_files) >= 2

\* C10: the trace view of a clicked result highlights
\* [position, position + length of the query of the search that found it).
C10_HighlightOfSearch ==
    ev.op = "show_trace" =>
        LET fig == trace_layout[1]
            info == FileInfo(found_files, 1, fig.file)[1]
        IN  fig.axvspan = << info.position, info.position + Len(search_query) >>

====
